---- MODULE Spec2Model ----
(***************************************************************************)
(* Model of the Argdown panel (src/src/index.tsx).                         *)
(*                                                                         *)
(* Spec, SpecExtract, SpecBoth and SpecTwice: the speaker filter core,     *)
(* extractSpeakers and buildSpeakerMutations, applied to bounded           *)
(* ArgdownMapData values and FilterOptions values.                         *)
(* PanelSpec: the mounted ArgdownPanelContent component, its state, the    *)
(* events it subscribes to, its buttons and its file parses in flight.     *)
(*                                                                         *)
(* A JavaScript string is a sequence of one-character strings, so that     *)
(* startsWith, includes, replace, template literals, join and the default  *)
(* Array.prototype.sort comparison are computed and not assumed.           *)
(* A JavaScript object map (response.arguments, response.statements) is    *)
(* the sequence of its entries in Object.entries order, with distinct      *)
(* keys.  An optional field is a has-flag next to the value.               *)
(***************************************************************************)
EXTENDS Integers, Sequences, FiniteSets, TLC

VARIABLES
    data,       \* the ArgdownMapData value the functions are called with
    filters,    \* the FilterOptions value buildSpeakerMutations was called with
    speakers,   \* what extractSpeakers returned
    mutations,  \* what buildSpeakerMutations returned
    pc,         \* "ready", or the function that has returned
    state,      \* the component's ArgdownPanelState
    parses,     \* the processArgdown calls in flight: the path of each
    handlers,   \* the event types the component has subscribed to
    last        \* the event or click handled last, with its payload

\* in PanelSpec speakers is availableSpeakers, mutations is nodeMutations and
\* pc is "rendered" (first render done) or "mounted" (effects run)
panelVars == <<state, parses, handlers, last>>

vars == <<data, filters, speakers, mutations, pc, state, parses, handlers, last>>

----------------------------------------------------------------------------
(* Strings *)

Hyphen == "-"

\* the literal 'speaker-'
SpeakerPrefix == <<"s", "p", "e", "a", "k", "e", "r", "-">>

\* the literal 'Speaker: ' of the emphasize reason
ReasonPrefix == <<"S", "p", "e", "a", "k", "e", "r", ":", " ">>

\* the separator of filters.speakers.join(', ')
JoinSeparator == <<",", " ">>

\* the literal 'Not matching filter'
DimReason ==
    <<"N", "o", "t", " ", "m", "a", "t", "c", "h", "i", "n", "g", " ",
      "f", "i", "l", "t", "e", "r">>

\* UTF-16 code unit of the characters the inputs are written with
CharCode(c) ==
    CASE c = "-" -> 45
      [] c = "X" -> 88
      [] c = "a" -> 97
      [] c = "e" -> 101
      [] c = "k" -> 107
      [] c = "p" -> 112
      [] c = "r" -> 114
      [] c = "s" -> 115
      [] c = "t" -> 116
      [] c = "x" -> 120
      [] c = "y" -> 121

\* String.prototype.startsWith
startsWith(s, prefix) ==
    /\ Len(s) >= Len(prefix)
    /\ SubSeq(s, 1, Len(prefix)) = prefix

\* String.prototype.includes with a one-character needle
includes(s, c) == \E i \in 1..Len(s) : s[i] = c

\* String.prototype.replace with a string pattern: the first occurrence only
replace(s, pattern, replacement) ==
    LET Occ == {i \in 1..(Len(s) - Len(pattern) + 1) :
                   SubSeq(s, i, i + Len(pattern) - 1) = pattern}
    IN  IF Occ = {} THEN s
        ELSE LET i == CHOOSE k \in Occ : \A m \in Occ : k <= m
             IN  SubSeq(s, 1, i - 1) \o replacement
                   \o SubSeq(s, i + Len(pattern), Len(s))

\* Array.prototype.includes
arrayIncludes(arr, x) == \E i \in 1..Len(arr) : arr[i] = x

RECURSIVE join(_, _)
\* Array.prototype.join
join(arr, sep) ==
    IF Len(arr) = 0 THEN <<>>
    ELSE IF Len(arr) = 1 THEN arr[1]
    ELSE arr[1] \o sep \o join(Tail(arr), sep)

\* s < t in the order of the default sort: by UTF-16 code units
StrLess(s, t) ==
    \E k \in 0..(IF Len(s) < Len(t) THEN Len(s) ELSE Len(t)) :
        /\ \A i \in 1..k : s[i] = t[i]
        /\ \/ k = Len(s) /\ k < Len(t)
           \/ /\ k < Len(s)
              /\ k < Len(t)
              /\ CharCode(s[k + 1]) < CharCode(t[k + 1])

RECURSIVE insertSorted(_, _)
insertSorted(sorted, x) ==
    IF Len(sorted) = 0 THEN <<x>>
    ELSE IF StrLess(x, Head(sorted)) THEN <<x>> \o sorted
    ELSE <<Head(sorted)>> \o insertSorted(Tail(sorted), x)

RECURSIVE sort(_)
\* Array.prototype.sort without a comparator, on an array of strings
sort(arr) ==
    IF Len(arr) = 0 THEN <<>>
    ELSE insertSorted(sort(SubSeq(arr, 1, Len(arr) - 1)), arr[Len(arr)])

\* setAdd with the speakers collected in an array instead of a Set
setAddNoDedup(set, x) == Append(set, x)

\* Set.prototype.add on a Set kept in insertion order
setAdd(set, x) == IF arrayIncludes(set, x) THEN set ELSE Append(set, x)

----------------------------------------------------------------------------
(* extractSpeakers *)

\* (item as TaggedItem).tags || []
tagsOrEmpty(item) == IF item.hasTags THEN item.tags ELSE <<>>

\* typeof tag === 'string' ? tag : tag?.tag || tag?.title || ''
tagStr(tag) ==
    IF tag.kind = "string" THEN tag.str
    ELSE IF tag.kind = "object" /\ tag.hasTag /\ tag.tag # <<>> THEN tag.tag
    ELSE IF tag.kind = "object" /\ tag.hasTitle /\ tag.title # <<>>
         THEN tag.title
    ELSE <<>>

\* addPrefixedSpeaker with the rule of the argument and statement tags: a
\* hyphen-free string is added too
addPrefixedSpeakerOrBare(set, str) ==
    IF startsWith(str, SpeakerPrefix)
    THEN setAdd(set, replace(str, SpeakerPrefix, <<>>))
    ELSE IF ~includes(str, Hyphen) THEN setAdd(set, str)
    ELSE set

\* the body of the loops over response.tags (array and object form)
addPrefixedSpeaker(set, str) ==
    IF startsWith(str, SpeakerPrefix)
    THEN setAdd(set, replace(str, SpeakerPrefix, <<>>))
    ELSE set

\* the body of the loops over an argument's or a statement's tags
addTagSpeaker(set, tag) ==
    IF startsWith(tag, SpeakerPrefix)
    THEN setAdd(set, replace(tag, SpeakerPrefix, <<>>))
    ELSE IF ~includes(tag, Hyphen) THEN setAdd(set, tag)
    ELSE set

RECURSIVE scanResponseTags(_, _, _)
scanResponseTags(response, i, set) ==
    IF i > Len(response.tags) THEN set
    ELSE scanResponseTags(response, i + 1,
            IF response.tagsKind = "array"
            THEN addPrefixedSpeaker(set, tagStr(response.tags[i]))
            ELSE addPrefixedSpeaker(set, response.tags[i].str))

RECURSIVE scanItemTags(_, _, _)
scanItemTags(tags, i, set) ==
    IF i > Len(tags) THEN set
    ELSE scanItemTags(tags, i + 1, addTagSpeaker(set, tags[i]))

RECURSIVE scanTaggedItems(_, _, _)
\* for (const arg of Object.values(...)) { if (arg.tags) { ... } }
scanTaggedItems(items, i, set) ==
    IF i > Len(items) THEN set
    ELSE scanTaggedItems(items, i + 1,
            IF items[i].hasTags THEN scanItemTags(items[i].tags, 1, set)
            ELSE set)

extractSpeakers(d) ==
    IF ~d.hasResponse THEN <<>>
    ELSE
      LET response == d.response
          fromTags == IF response.tagsKind = "absent" THEN <<>>
                      ELSE scanResponseTags(response, 1, <<>>)
          fromArguments ==
              IF response.hasArguments
              THEN scanTaggedItems(response.arguments, 1, fromTags)
              ELSE fromTags
          fromStatements ==
              IF response.hasStatements
              THEN scanTaggedItems(response.statements, 1, fromArguments)
              ELSE fromArguments
      IN  sort(fromStatements)

----------------------------------------------------------------------------
(* buildSpeakerMutations *)

\* filters.speakers.map(s => `speaker-${s}`)
speakerTags(filterSpeakers) ==
    [i \in 1..Len(filterSpeakers) |-> SpeakerPrefix \o filterSpeakers[i]]

\* allFilterTags without the bare speaker names
allFilterTagsPrefixedOnly(filterSpeakers) == speakerTags(filterSpeakers)

\* [...speakerTags, ...filters.speakers]
allFilterTags(filterSpeakers) == speakerTags(filterSpeakers) \o filterSpeakers

\* allFilterTags.some(tag => tags.includes(tag))
matchesFilter(filterTags, tags) ==
    \E i \in 1..Len(filterTags) : arrayIncludes(tags, filterTags[i])

\* hasSpeakerTag without the hyphen-free case
hasSpeakerTagPrefixedOnly(stmtTags) ==
    \E i \in 1..Len(stmtTags) : startsWith(stmtTags[i], SpeakerPrefix)

\* stmtTags.some(t => t.startsWith('speaker-') || !t.includes('-'))
hasSpeakerTag(stmtTags) ==
    \E i \in 1..Len(stmtTags) :
        startsWith(stmtTags[i], SpeakerPrefix) \/ ~includes(stmtTags[i], Hyphen)

\* the condition of the if in the loop over response.arguments
argumentMatches(arg, filterTags) == matchesFilter(filterTags, tagsOrEmpty(arg))

\* statementMatches with the rule of the arguments
statementMatchesLikeArgument(stmt, filterTags) ==
    matchesFilter(filterTags, tagsOrEmpty(stmt))

\* the condition of the if in the loop over response.statements
statementMatches(stmt, filterTags) ==
    \/ ~hasSpeakerTag(tagsOrEmpty(stmt))
    \/ matchesFilter(filterTags, tagsOrEmpty(stmt))

pushMatching(lists, id) ==
    [lists EXCEPT !.matchingNodeIds = Append(@, id)]

pushNonMatching(lists, id) ==
    [lists EXCEPT !.nonMatchingNodeIds = Append(@, id)]

\* checkArgument that skips an argument without a tags field, as the loops
\* of extractSpeakers do
checkArgumentSkipUntagged(arg, filterTags, lists) ==
    IF ~arg.hasTags THEN lists
    ELSE IF matchesFilter(filterTags, arg.tags)
    THEN pushMatching(lists, arg.id)
    ELSE pushNonMatching(lists, arg.id)

\* one iteration of the loop over response.arguments
checkArgument(arg, filterTags, lists) ==
    IF argumentMatches(arg, filterTags)
    THEN pushMatching(lists, arg.id)
    ELSE pushNonMatching(lists, arg.id)

\* one iteration of the loop over response.statements
checkStatement(stmt, filterTags, lists) ==
    IF statementMatches(stmt, filterTags)
    THEN pushMatching(lists, stmt.id)
    ELSE pushNonMatching(lists, stmt.id)

\* checkMapNode with the rule of the arguments: a node that does not match
\* is dimmed
checkMapNodeDimming(node, filterTags, lists) ==
    IF /\ ~arrayIncludes(lists.matchingNodeIds, node.id)
       /\ ~arrayIncludes(lists.nonMatchingNodeIds, node.id)
    THEN IF matchesFilter(filterTags, tagsOrEmpty(node))
         THEN pushMatching(lists, node.id)
         ELSE pushNonMatching(lists, node.id)
    ELSE lists

\* one iteration of the loop over response.map.nodes
checkMapNode(node, filterTags, lists) ==
    IF /\ ~arrayIncludes(lists.matchingNodeIds, node.id)
       /\ ~arrayIncludes(lists.nonMatchingNodeIds, node.id)
    THEN IF matchesFilter(filterTags, tagsOrEmpty(node))
         THEN pushMatching(lists, node.id)
         ELSE lists
    ELSE lists

RECURSIVE checkArguments(_, _, _, _)
checkArguments(args, filterTags, i, lists) ==
    IF i > Len(args) THEN lists
    ELSE checkArguments(args, filterTags, i + 1,
                        checkArgument(args[i], filterTags, lists))

RECURSIVE checkStatements(_, _, _, _)
checkStatements(stmts, filterTags, i, lists) ==
    IF i > Len(stmts) THEN lists
    ELSE checkStatements(stmts, filterTags, i + 1,
                         checkStatement(stmts[i], filterTags, lists))

RECURSIVE checkMapNodes(_, _, _, _)
checkMapNodes(nodes, filterTags, i, lists) ==
    IF i > Len(nodes) THEN lists
    ELSE checkMapNodes(nodes, filterTags, i + 1,
                       checkMapNode(nodes[i], filterTags, lists))

\* classifyNodes with the statements loop before the arguments loop
classifyNodesStatementsFirst(response, filterTags) ==
    LET start == [matchingNodeIds |-> <<>>, nonMatchingNodeIds |-> <<>>]
        afterStatements ==
            IF response.hasStatements
            THEN checkStatements(response.statements, filterTags, 1, start)
            ELSE start
        afterArguments ==
            IF response.hasArguments
            THEN checkArguments(response.arguments, filterTags, 1,
                                afterStatements)
            ELSE afterStatements
    IN  IF response.hasMap /\ response.map.hasNodes
        THEN checkMapNodes(response.map.nodes, filterTags, 1, afterArguments)
        ELSE afterArguments

\* matchingNodeIds and nonMatchingNodeIds after the three loops
classifyNodes(response, filterTags) ==
    LET start == [matchingNodeIds |-> <<>>, nonMatchingNodeIds |-> <<>>]
        afterArguments ==
            IF response.hasArguments
            THEN checkArguments(response.arguments, filterTags, 1, start)
            ELSE start
        afterStatements ==
            IF response.hasStatements
            THEN checkStatements(response.statements, filterTags, 1,
                                 afterArguments)
            ELSE afterArguments
    IN  IF response.hasMap /\ response.map.hasNodes
        THEN checkMapNodes(response.map.nodes, filterTags, 1, afterStatements)
        ELSE afterStatements

emphasizeMutation(matchingNodeIds, filterSpeakers) ==
    [nodeIds  |-> matchingNodeIds,
     effect   |-> "emphasize",
     reason   |-> ReasonPrefix \o join(filterSpeakers, JoinSeparator),
     priority |-> 10]

dimMutation(nonMatchingNodeIds) ==
    [nodeIds  |-> nonMatchingNodeIds,
     effect   |-> "dim",
     reason   |-> DimReason,
     priority |-> 0]

\* emitMutations without the two length tests
emitMutationsAlways(lists, filterSpeakers) ==
    <<emphasizeMutation(lists.matchingNodeIds, filterSpeakers),
      dimMutation(lists.nonMatchingNodeIds)>>

\* the mutations array built from the two lists
emitMutations(lists, filterSpeakers) ==
    (IF Len(lists.matchingNodeIds) > 0
     THEN <<emphasizeMutation(lists.matchingNodeIds, filterSpeakers)>>
     ELSE <<>>)
    \o
    (IF Len(lists.nonMatchingNodeIds) > 0
     THEN <<dimMutation(lists.nonMatchingNodeIds)>>
     ELSE <<>>)

\* noSpeakerFilter that takes an empty speakers list for a filter
noSpeakerFilterAbsentOnly(f) == ~f.hasSpeakers

\* !filters.speakers?.length
noSpeakerFilter(f) == ~f.hasSpeakers \/ Len(f.speakers) = 0

\* what a call returns when it throws a TypeError
ThrownTypeError == <<"TypeError">>

\* buildSpeakerMutations without the test of data.response: reading
\* response.arguments of undefined throws
buildSpeakerMutationsNoResponseTest(d, f) ==
    IF noSpeakerFilter(f) THEN <<>>
    ELSE IF ~d.hasResponse THEN ThrownTypeError
    ELSE emitMutations(classifyNodes(d.response, allFilterTags(f.speakers)),
                       f.speakers)

buildSpeakerMutations(d, f) ==
    IF ~d.hasResponse \/ noSpeakerFilter(f) THEN <<>>
    ELSE emitMutations(classifyNodes(d.response, allFilterTags(f.speakers)),
                       f.speakers)

----------------------------------------------------------------------------
(* Bounded inputs *)

\* top-level tags + arguments + statements + graph nodes of one data value
MaxItems == 3
\* entries of filters.speakers
MaxSpeakers == 2

SeqsUpTo(S, n) == UNION {[1..k -> S] : k \in 0..n}

Optional(S) ==
    {[has |-> FALSE, val |-> <<>>]} \cup {[has |-> TRUE, val |-> v] : v \in S}

NameX == <<"x">>
NameY == <<"y">>
TagSpeakerX == SpeakerPrefix \o NameX
TagSpeakerY == SpeakerPrefix \o NameY
TagSpeakerUpperX == SpeakerPrefix \o <<"X">>
TagTopic == <<"t", "-", "x">>

\* the speaker names a filter is made of
SpeakerNames == {NameX, NameY}

\* the tags fields an argument, a statement or a graph node comes with
TagLists ==
    {<<>>, <<NameX>>, <<TagSpeakerX>>, <<TagSpeakerY>>, <<TagTopic>>,
     <<TagTopic, TagSpeakerY>>}

ItemTags ==
    {[hasTags |-> FALSE, tags |-> <<>>]}
      \cup {[hasTags |-> TRUE, tags |-> t] : t \in TagLists}

Items(ids) ==
    {[id |-> i, hasTags |-> t.hasTags, tags |-> t.tags] :
        i \in ids, t \in ItemTags}

\* the keys of an object, and the ids of a graph's nodes, are distinct
distinctIds(s) == \A i, j \in 1..Len(s) : i # j => s[i].id # s[j].id

\* "b" is a key of both maps and a graph node; "n" is a graph node only
ArgumentIds == {"b", "c"}
StatementIds == {"a", "b"}
NodeIds == {"b", "n"}

ArgumentMaps ==
    {s \in SeqsUpTo(Items(ArgumentIds), Cardinality(ArgumentIds)) :
        distinctIds(s)}

StatementMaps ==
    {s \in SeqsUpTo(Items(StatementIds), Cardinality(StatementIds)) :
        distinctIds(s)}

NodeLists ==
    {s \in SeqsUpTo(Items(NodeIds), Cardinality(NodeIds)) : distinctIds(s)}

NoMap == [hasNodes |-> FALSE, nodes |-> <<>>]

GraphMaps ==
    {[has |-> FALSE, val |-> NoMap]}
      \cup {[has |-> TRUE, val |-> [hasNodes |-> n.has, nodes |-> n.val]] :
              n \in Optional(NodeLists)}

StringEntry(s) ==
    [kind |-> "string", str |-> s, hasTag |-> FALSE, tag |-> <<>>,
     hasTitle |-> FALSE, title |-> <<>>]

TagObject(hasTag, tag, hasTitle, title) ==
    [kind |-> "object", str |-> <<>>, hasTag |-> hasTag, tag |-> tag,
     hasTitle |-> hasTitle, title |-> title]

NullEntry ==
    [kind |-> "null", str |-> <<>>, hasTag |-> FALSE, tag |-> <<>>,
     hasTitle |-> FALSE, title |-> <<>>]

\* the entries a response.tags array is made of
TopTagEntries ==
    {StringEntry(TagSpeakerUpperX), StringEntry(NameX),
     TagObject(TRUE, TagSpeakerY, FALSE, <<>>),
     TagObject(TRUE, <<>>, TRUE, TagSpeakerX),
     NullEntry}

\* the keys a response.tags object is made of
TopTagKeys == {StringEntry(TagSpeakerUpperX), StringEntry(NameX)}

NoTopTags == [kind |-> "absent", tags |-> <<>>]

\* response.tags as an array or as an object, by the number of entries
TopTagsOfLen ==
    [n \in 0..MaxItems |->
        {[kind |-> "array", tags |-> t] : t \in [1..n -> TopTagEntries]}
          \cup {[kind |-> "object", tags |-> t] :
                  t \in {k \in [1..n -> TopTagKeys] :
                           \A i, j \in 1..n : i # j => k[i] # k[j]}}]

Response(t, a, s, m) ==
    [tagsKind |-> t.kind, tags |-> t.tags,
     hasArguments |-> a.has, arguments |-> a.val,
     hasStatements |-> s.has, statements |-> s.val,
     hasMap |-> m.has, map |-> m.val]

\* the argument maps, statement maps and graphs, by their number of entries
ArgumentsOfLen ==
    [n \in 0..MaxItems |-> {v \in Optional(ArgumentMaps) : Len(v.val) = n}]

StatementsOfLen ==
    [n \in 0..MaxItems |-> {v \in Optional(StatementMaps) : Len(v.val) = n}]

GraphMapsOfLen ==
    [n \in 0..MaxItems |-> {m \in GraphMaps : Len(m.val.nodes) = n}]

\* the numbers of top-level tags, arguments, statements and graph nodes
ItemCounts ==
    {z \in (0..MaxItems) \X (0..MaxItems) \X (0..MaxItems) \X (0..MaxItems) :
        z[1] + z[2] + z[3] + z[4] <= MaxItems}

NoResponse ==
    Response(NoTopTags, [has |-> FALSE, val |-> <<>>],
             [has |-> FALSE, val |-> <<>>], [has |-> FALSE, val |-> NoMap])

\* data.response is undefined: the response field is never read
NoStructure == [hasResponse |-> FALSE, response |-> NoResponse]

FilterOptions ==
    {[hasSpeakers |-> f.has, speakers |-> f.val] :
        f \in Optional(SeqsUpTo(SpeakerNames, MaxSpeakers))}

NoFilter == [hasSpeakers |-> FALSE, speakers |-> <<>>]

----------------------------------------------------------------------------
(* The panel's state *)

\* null, and a value that is not null
Null == [isNull |-> TRUE]
Some(v) == [isNull |-> FALSE, val |-> v]

\* the FilterOptions value {}
EmptyFilters ==
    [hasSpeakers |-> FALSE, speakers |-> <<>>, hasTags |-> FALSE, tags |-> <<>>]

initialState ==
    [data |-> Null,
     title |-> Null,
     filters |-> EmptyFilters,
     highlightedNode |-> Null,
     showFilterPanel |-> FALSE,
     isLoading |-> FALSE,
     error |-> Null]

\* an event that came without payload
NoPayload == [absent |-> TRUE]

\* nothing handled yet
NoOperation == [op |-> "none", hasPayload |-> FALSE, payload |-> NoPayload]

----------------------------------------------------------------------------
(* The calls *)

Init ==
    /\ \/ \* no top-level tags: what buildSpeakerMutations reads varies
          \E z \in ItemCounts :
            \E a \in ArgumentsOfLen[z[2]], s \in StatementsOfLen[z[3]],
               m \in GraphMapsOfLen[z[4]] :
                 /\ z[1] = 0
                 /\ data = [hasResponse |-> TRUE,
                            response |-> Response(NoTopTags, a, s, m)]
       \/ \* top-level tags and no graph: what extractSpeakers reads varies
          \E z \in ItemCounts :
            \E t \in TopTagsOfLen[z[1]],
               a \in ArgumentsOfLen[z[2]], s \in StatementsOfLen[z[3]] :
                 /\ z[4] = 0
                 /\ data = [hasResponse |-> TRUE,
                            response |-> Response(t, a, s,
                                           [has |-> FALSE, val |-> NoMap])]
       \/ \* no structure
          data = NoStructure
    /\ filters = NoFilter
    /\ speakers = <<>>
    /\ mutations = <<>>
    /\ pc = "ready"
    /\ state = initialState
    /\ parses = <<>>
    /\ handlers = {}
    /\ last = NoOperation

\* the panel's render computes availableSpeakers, then nodeMutations
ExtractSpeakers ==
    /\ pc = "ready"
    /\ speakers' = extractSpeakers(data)
    /\ pc' = "extracted"
    /\ UNCHANGED <<data, filters, mutations>>
    /\ UNCHANGED panelVars

BuildSpeakerMutations ==
    /\ pc = "extracted"
    /\ \E f \in FilterOptions :
          /\ filters' = f
          /\ mutations' = buildSpeakerMutations(data, f)
    /\ pc' = "built"
    /\ UNCHANGED <<data, speakers>>
    /\ UNCHANGED panelVars

Next == ExtractSpeakers \/ BuildSpeakerMutations

Spec == Init /\ [][Next]_vars

\* extractSpeakers alone, on all the data
SpecExtract == Init /\ [][ExtractSpeakers]_vars

\* filters.speakers with the tags appended in place, as
\* filters.speakers.push(...speakerTags) would leave it
speakersAfterCallPushed(filterSpeakers) ==
    filterSpeakers \o speakerTags(filterSpeakers)

\* filters.speakers as a call of buildSpeakerMutations leaves it: map, the
\* spread, some, includes and join read the array and write nothing
speakersAfterCall(filterSpeakers) == filterSpeakers

\* the data buildSpeakerMutations reads: no top-level tags
InitTwice ==
    /\ Init
    /\ data.response.tagsKind = "absent"

\* the first call, with any filter
FirstCall ==
    /\ pc = "ready"
    /\ \E f \in FilterOptions :
          /\ filters' = f
          /\ mutations' = buildSpeakerMutations(data, f)
    /\ pc' = "built"
    /\ UNCHANGED <<data, speakers>>
    /\ UNCHANGED panelVars

\* a second call with the same data and the same filter object
SecondCall ==
    /\ pc = "built"
    /\ filters' = [filters EXCEPT !.speakers = speakersAfterCall(@)]
    /\ mutations' = buildSpeakerMutations(data, filters')
    /\ pc' = "rebuilt"
    /\ UNCHANGED <<data, speakers>>
    /\ UNCHANGED panelVars

NextTwice == FirstCall \/ SecondCall

SpecTwice == InitTwice /\ [][NextTwice]_vars

\* both functions called on the same data, as a render calls them
CallBoth ==
    /\ pc = "ready"
    /\ speakers' = extractSpeakers(data)
    /\ \E f \in FilterOptions :
          /\ filters' = f
          /\ mutations' = buildSpeakerMutations(data, f)
    /\ pc' = "built"
    /\ UNCHANGED data
    /\ UNCHANGED panelVars

SpecBoth == InitTwice /\ [][CallBoth]_vars

----------------------------------------------------------------------------
(* The panel: ArgdownPanelContent and its tools *)

PANEL_ID == "industry-theme.argdown-panel"

\* `${PANEL_ID}:<name>`
PanelEvent(name) == PANEL_ID \o ":" \o name

FileSelectedEvent == "file:selected"
FileOpenedEvent == "file:opened"

\* the tools: name and tool_call_template.event_type
loadArgdownTool ==
    [name |-> "load_argdown", event_type |-> PanelEvent("load-argdown")]
setFiltersTool ==
    [name |-> "set_filters", event_type |-> PanelEvent("set-filters")]
setViewModeTool ==
    [name |-> "set_view_mode", event_type |-> PanelEvent("set-view-mode")]
highlightNodeTool ==
    [name |-> "highlight_node", event_type |-> PanelEvent("highlight-node")]
getMetadataTool ==
    [name |-> "get_argdown_metadata", event_type |-> PanelEvent("get-metadata")]
resetViewTool ==
    [name |-> "reset_view", event_type |-> PanelEvent("reset-view")]

argdownPanelTools ==
    <<loadArgdownTool, setFiltersTool, setViewModeTool, highlightNodeTool,
      getMetadataTool, resetViewTool>>

\* the event types of the events.on calls of the subscription effect
Subscriptions ==
    {PanelEvent("load-argdown"), PanelEvent("set-filters"),
     PanelEvent("highlight-node"), PanelEvent("reset-view"),
     FileSelectedEvent, FileOpenedEvent}

(* Paths and titles *)

Slash == "/"

endsWith(s, suffix) ==
    /\ Len(s) >= Len(suffix)
    /\ SubSeq(s, Len(s) - Len(suffix) + 1, Len(s)) = suffix

\* the alternatives of /\.(argdown|ad|md)$/i, for paths in lower case
Extensions ==
    {<<".", "a", "r", "g", "d", "o", "w", "n">>, <<".", "a", "d">>,
     <<".", "m", "d">>}

\* path.split('/').pop() || path
filenameOf(path) ==
    LET S == {i \in 1..Len(path) : path[i] = Slash}
        popped == IF S = {} THEN path
                  ELSE SubSeq(path, (CHOOSE i \in S : \A j \in S : j <= i) + 1,
                              Len(path))
    IN  IF popped = <<>> THEN path ELSE popped

\* filename.replace(/\.(argdown|ad|md)$/i, '')
titleOf(filename) ==
    IF \E e \in Extensions : endsWith(filename, e)
    THEN LET e == CHOOSE x \in Extensions : endsWith(filename, x)
         IN  SubSeq(filename, 1, Len(filename) - Len(e))
    ELSE filename

(* The handlers: the state each setState call returns *)

\* handleLoadArgdown that spreads prev and keeps its filters
handleLoadArgdownKeepFilters(prev, payload) ==
    [prev EXCEPT
        !.data = Some(payload.data),
        !.title = IF payload.hasTitle /\ payload.title # <<>>
                  THEN Some(payload.title) ELSE Null]

handleLoadArgdown(prev, payload) ==
    [prev EXCEPT
        !.data = Some(payload.data),
        !.title = IF payload.hasTitle /\ payload.title # <<>>
                  THEN Some(payload.title) ELSE Null,
        !.filters = EmptyFilters]

\* handleSetFilters that merges the payload into the previous filters:
\* {...prev.filters, ...payload}
handleSetFiltersMerge(prev, payload) ==
    [prev EXCEPT
        !.filters = [hasSpeakers |-> payload.hasSpeakers \/ @.hasSpeakers,
                     speakers |-> IF payload.hasSpeakers THEN payload.speakers
                                  ELSE @.speakers,
                     hasTags |-> payload.hasTags \/ @.hasTags,
                     tags |-> IF payload.hasTags THEN payload.tags
                              ELSE @.tags]]

handleSetFilters(prev, payload) == [prev EXCEPT !.filters = payload]

handleHighlightNode(prev, payload) ==
    [prev EXCEPT !.highlightedNode = Some(payload.nodeId)]

\* handleResetView that resets the filters whatever the payload says
handleResetViewAlways(prev, payload) ==
    [prev EXCEPT !.highlightedNode = Null, !.filters = EmptyFilters]

handleResetView(prev, payload) ==
    [prev EXCEPT
        !.highlightedNode = Null,
        !.filters = IF payload.hasResetFilters /\ payload.resetFilters
                    THEN EmptyFilters ELSE @]

\* handleFileSelected: if (!content) return
contentGiven(payload) == payload.hasContent /\ payload.content # ""

\* handleFileSelected: the setState before the parse
startLoading(prev) == [prev EXCEPT !.isLoading = TRUE, !.error = Null]

\* handleFileSelected: the setState after processArgdown resolved
parseSucceeded(prev, parsed, path) ==
    [prev EXCEPT
        !.data = Some(parsed),
        !.title = Some(titleOf(filenameOf(path))),
        !.filters = EmptyFilters,
        !.isLoading = FALSE,
        !.error = Null]

DefaultParseError == "Failed to parse argdown content"

\* error instanceof Error ? error.message : 'Failed to parse argdown content'
errorText(thrown) ==
    IF thrown.isError THEN thrown.message ELSE DefaultParseError

\* parseFailed that drops the data the failed file replaces
parseFailedDropData(prev, thrown) ==
    [prev EXCEPT
        !.data = Null,
        !.isLoading = FALSE,
        !.error = Some(errorText(thrown))]

\* handleFileSelected: the setState of the catch block
parseFailed(prev, thrown) ==
    [prev EXCEPT !.isLoading = FALSE, !.error = Some(errorText(thrown))]

\* prev.filters.speakers || []
currentSpeakers(f) == IF f.hasSpeakers THEN f.speakers ELSE <<>>

\* the speakers list after a toggle
toggledSpeakers(list, speaker) ==
    IF arrayIncludes(list, speaker)
    THEN SelectSeq(list, LAMBDA s : s # speaker)
    ELSE Append(list, speaker)

\* toggleSpeakerFilter that stores the new list as it is, empty or not
toggleSpeakerFilterKeepEmpty(prev, speaker) ==
    [prev EXCEPT
        !.filters.hasSpeakers = TRUE,
        !.filters.speakers =
            toggledSpeakers(currentSpeakers(prev.filters), speaker)]

toggleSpeakerFilter(prev, speaker) ==
    LET newSpeakers == toggledSpeakers(currentSpeakers(prev.filters), speaker)
    IN  [prev EXCEPT
            !.filters.hasSpeakers = Len(newSpeakers) > 0,
            !.filters.speakers = newSpeakers]

clearFilters(prev) == [prev EXCEPT !.filters = EmptyFilters]

\* the onClick of the filter toggle button
toggleFilterPanel(prev) == [prev EXCEPT !.showFilterPanel = ~@]

\* (state.filters.speakers?.length || 0) > 0
hasActiveFilters(st) == Len(currentSpeakers(st.filters)) > 0

(* The values computed at each render *)

\* useMemo(..., [state.data]): the cached value while state.data is the same
availableSpeakers(prev, st, cached) ==
    IF st.data = prev.data THEN cached
    ELSE IF st.data.isNull THEN <<>>
    ELSE extractSpeakers(st.data.val)

\* nodeMutations with state.filters missing from the dependency list
nodeMutationsDataOnly(prev, st, cached) ==
    IF st.data = prev.data THEN cached
    ELSE IF st.data.isNull THEN <<>>
    ELSE buildSpeakerMutations(st.data.val, st.filters)

\* useMemo(..., [state.data, state.filters])
nodeMutations(prev, st, cached) ==
    IF st.data = prev.data /\ st.filters = prev.filters THEN cached
    ELSE IF st.data.isNull THEN <<>>
    ELSE buildSpeakerMutations(st.data.val, st.filters)

\* the render that follows a setState
Render ==
    /\ speakers' = availableSpeakers(state, state', speakers)
    /\ mutations' = nodeMutations(state, state', mutations)

\* the main content area: state.isLoading ? ... : state.error ? ... :
\* state.data ? <ArgdownRenderer> : the empty view; an empty error string is
\* falsy
mainArea(st) ==
    IF st.isLoading THEN "loading"
    ELSE IF ~st.error.isNull /\ st.error.val # "" THEN "error"
    ELSE IF ~st.data.isNull THEN "renderer"
    ELSE "empty"

(* Bounded events *)

\* processArgdown calls in flight at once
MaxParses == 2

Item(id, tags) == [id |-> id, hasTags |-> TRUE, tags |-> tags]

\* arguments b [speaker-x] and c [speaker-y], statement a without tags
DataDebate ==
    [hasResponse |-> TRUE,
     response |->
        Response(NoTopTags,
                 [has |-> TRUE,
                  val |-> <<Item("b", <<TagSpeakerX>>),
                            Item("c", <<TagSpeakerY>>)>>],
                 [has |-> TRUE,
                  val |-> <<[id |-> "a", hasTags |-> FALSE, tags |-> <<>>]>>],
                 [has |-> FALSE, val |-> NoMap])]

\* one statement a [speaker-y]
DataSolo ==
    [hasResponse |-> TRUE,
     response |->
        Response(NoTopTags,
                 [has |-> FALSE, val |-> <<>>],
                 [has |-> TRUE, val |-> <<Item("a", <<TagSpeakerY>>)>>],
                 [has |-> FALSE, val |-> NoMap])]

PanelData == {DataDebate, DataSolo}

PathDebate == <<"d", "/", "a", ".", "a", "d">>
PathNotes == <<"b", ".", "m", "d">>
Paths == {PathDebate, PathNotes}

\* an event with or without payload
Events(payloads) ==
    {[hasPayload |-> FALSE, payload |-> NoPayload]}
      \cup {[hasPayload |-> TRUE, payload |-> p] : p \in payloads}

\* with a title, without one, and with the empty string for a title
LoadPayloads ==
    {[data |-> DataDebate, hasTitle |-> TRUE, title |-> <<"T">>],
     [data |-> DataDebate, hasTitle |-> FALSE, title |-> <<>>],
     [data |-> DataSolo, hasTitle |-> TRUE, title |-> <<>>]}

FilterPayloads ==
    {EmptyFilters,
     [EmptyFilters EXCEPT !.hasSpeakers = TRUE],
     [EmptyFilters EXCEPT !.hasSpeakers = TRUE, !.speakers = <<NameX>>],
     [EmptyFilters EXCEPT !.hasSpeakers = TRUE, !.speakers = <<NameY, NameX>>],
     [EmptyFilters EXCEPT !.hasTags = TRUE, !.tags = <<TagTopic>>]}

HighlightPayloads == {[nodeId |-> "b"], [nodeId |-> "n"]}

\* event.payload || {}
EmptyResetPayload == [hasResetFilters |-> FALSE, resetFilters |-> FALSE]

ResetPayloads ==
    {EmptyResetPayload,
     [hasResetFilters |-> TRUE, resetFilters |-> TRUE],
     [hasResetFilters |-> TRUE, resetFilters |-> FALSE]}

ViewModePayloads == {[mode |-> "source"]}

\* get_argdown_metadata has no inputs: the payload is {}
MetadataPayloads == {[empty |-> TRUE]}

FilePayloads ==
    {[path |-> p, hasContent |-> TRUE, content |-> "[A]: claim"] : p \in Paths}
      \cup {[path |-> PathDebate, hasContent |-> TRUE, content |-> ""],
            [path |-> PathDebate, hasContent |-> FALSE, content |-> ""]}

\* what processArgdown rejects with: an Error, or a value that is no Error
ThrownValues ==
    {[isError |-> TRUE, message |-> "Unexpected token"],
     [isError |-> FALSE, message |-> ""]}

Handled(op, e) == [op |-> op, hasPayload |-> e.hasPayload, payload |-> e.payload]

removeAt(s, i) == SubSeq(s, 1, i - 1) \o SubSeq(s, i + 1, Len(s))

(* The component *)

\* the effects of the first render have run
mounted == pc = "mounted"

PanelInit ==
    /\ data = NoStructure
    /\ filters = NoFilter
    /\ speakers = <<>>
    /\ mutations = <<>>
    /\ pc = "rendered"
    /\ state = initialState
    /\ parses = <<>>
    /\ handlers = {}
    /\ last = NoOperation

\* the two effects after the first render: the subscriptions, and the look
\* at the active-file slice
Mount ==
    /\ pc = "rendered"
    /\ pc' = "mounted"
    /\ handlers' = Subscriptions
    /\ \E slice \in Events(FilePayloads) :
          /\ last' = Handled("mount", slice)
          /\ IF slice.hasPayload /\ contentGiven(slice.payload)
             THEN /\ state' = startLoading(state)
                  /\ parses' = Append(parses, slice.payload.path)
             ELSE UNCHANGED <<state, parses>>
    /\ Render
    /\ UNCHANGED <<data, filters>>

\* what the subscribed callbacks make of an event of the panel
onEvent(st, type, e) ==
    IF type \notin handlers THEN st
    ELSE IF type = PanelEvent("load-argdown")
    THEN IF e.hasPayload THEN handleLoadArgdown(st, e.payload) ELSE st
    ELSE IF type = PanelEvent("set-filters")
    THEN IF e.hasPayload THEN handleSetFilters(st, e.payload) ELSE st
    ELSE IF type = PanelEvent("highlight-node")
    THEN IF e.hasPayload THEN handleHighlightNode(st, e.payload) ELSE st
    ELSE IF type = PanelEvent("reset-view")
    THEN handleResetView(st, IF e.hasPayload THEN e.payload
                             ELSE EmptyResetPayload)
    ELSE st

\* the event bus delivers an event of this type, with one of these payloads
\* or none, and the component renders
Deliver(type, payloads) ==
    /\ \E e \in Events(payloads) :
          /\ last' = Handled(type, e)
          /\ state' = onEvent(state, type, e)
    /\ Render
    /\ UNCHANGED <<data, filters, pc, handlers, parses>>

EmitLoadArgdown ==
    /\ mounted
    /\ Deliver(loadArgdownTool.event_type, LoadPayloads)

EmitSetFilters ==
    /\ mounted
    /\ Deliver(setFiltersTool.event_type, FilterPayloads)

EmitSetViewMode ==
    /\ mounted
    /\ Deliver(setViewModeTool.event_type, ViewModePayloads)

EmitHighlightNode ==
    /\ mounted
    /\ Deliver(highlightNodeTool.event_type, HighlightPayloads)

EmitGetMetadata ==
    /\ mounted
    /\ Deliver(getMetadataTool.event_type, MetadataPayloads)

EmitResetView ==
    /\ mounted
    /\ Deliver(resetViewTool.event_type, ResetPayloads)

\* file:selected or file:opened: handleFileSelected up to the await
EmitFileEvent ==
    /\ pc = "mounted"
    /\ \E type \in {FileSelectedEvent, FileOpenedEvent},
          e \in Events(FilePayloads) :
          /\ last' = Handled(type, e)
          /\ IF type \in handlers /\ e.hasPayload /\ contentGiven(e.payload)
             THEN /\ Len(parses) < MaxParses
                  /\ state' = startLoading(state)
                  /\ parses' = Append(parses, e.payload.path)
             ELSE UNCHANGED <<state, parses>>
    /\ Render
    /\ UNCHANGED <<data, filters, pc, handlers>>

\* a processArgdown call resolves: handleFileSelected after the await
ParseResolves ==
    /\ pc = "mounted"
    /\ \E i \in 1..Len(parses), parsed \in PanelData :
          /\ state' = parseSucceeded(state, parsed, parses[i])
          /\ parses' = removeAt(parses, i)
          /\ last' = [op |-> "parse:resolved", hasPayload |-> TRUE,
                      payload |-> [parsed |-> parsed, from |-> parses[i]]]
    /\ Render
    /\ UNCHANGED <<data, filters, pc, handlers>>

\* a processArgdown call rejects: the catch block of handleFileSelected
ParseRejects ==
    /\ pc = "mounted"
    /\ \E i \in 1..Len(parses), thrown \in ThrownValues :
          /\ state' = parseFailed(state, thrown)
          /\ parses' = removeAt(parses, i)
          /\ last' = [op |-> "parse:rejected", hasPayload |-> TRUE,
                      payload |-> [thrown |-> thrown, from |-> parses[i]]]
    /\ Render
    /\ UNCHANGED <<data, filters, pc, handlers>>

\* the filter toggle button, rendered while there are speakers
ClickFilterButton ==
    /\ pc = "mounted"
    /\ Len(speakers) > 0
    /\ state' = toggleFilterPanel(state)
    /\ last' = [op |-> "click:filter", hasPayload |-> FALSE,
                payload |-> NoPayload]
    /\ Render
    /\ UNCHANGED <<data, filters, pc, handlers, parses>>

\* a speaker button of the filter panel
ClickSpeaker ==
    /\ pc = "mounted"
    /\ state.showFilterPanel
    /\ \E i \in 1..Len(speakers) :
          /\ state' = toggleSpeakerFilter(state, speakers[i])
          /\ last' = [op |-> "click:speaker", hasPayload |-> TRUE,
                      payload |-> [speaker |-> speakers[i]]]
    /\ Render
    /\ UNCHANGED <<data, filters, pc, handlers, parses>>

\* the clear button, rendered while a speaker filter is active
ClickClear ==
    /\ pc = "mounted"
    /\ hasActiveFilters(state)
    /\ state' = clearFilters(state)
    /\ last' = [op |-> "click:clear", hasPayload |-> FALSE,
                payload |-> NoPayload]
    /\ Render
    /\ UNCHANGED <<data, filters, pc, handlers, parses>>

PanelNext ==
    \/ Mount
    \/ EmitLoadArgdown
    \/ EmitSetFilters
    \/ EmitSetViewMode
    \/ EmitHighlightNode
    \/ EmitGetMetadata
    \/ EmitResetView
    \/ EmitFileEvent
    \/ ParseResolves
    \/ ParseRejects
    \/ ClickFilterButton
    \/ ClickSpeaker
    \/ ClickClear

PanelSpec == PanelInit /\ [][PanelNext]_vars

----------------------------------------------------------------------------
(* What the properties speak of *)

extracted == pc \in {"extracted", "built"}

built == pc = "built"

Range(s) == {s[i] : i \in 1..Len(s)}

\* the nodeIds of the returned mutation with this effect, <<>> without one
nodeIdsOf(effect) ==
    LET I == {i \in 1..Len(mutations) : mutations[i].effect = effect}
    IN  IF I = {} THEN <<>> ELSE mutations[CHOOSE i \in I : TRUE].nodeIds

emphasized == Range(nodeIdsOf("emphasize"))

dimmed == Range(nodeIdsOf("dim"))

\* the data has a structure and the speakers list is non-empty
filterActive ==
    data.hasResponse /\ filters.hasSpeakers /\ filters.speakers # <<>>

\* the tags an item carries, none when the field is absent
itemTags(item) == IF item.hasTags THEN item.tags ELSE <<>>

\* tag is `speaker-s` or the bare `s` for a requested speaker s
inFilterMatchSet(tag) ==
    \E i \in 1..Len(filters.speakers) :
        \/ tag = SpeakerPrefix \o filters.speakers[i]
        \/ tag = filters.speakers[i]

\* one of the item's own tags is in the filter-match set
tagsMatch(item) ==
    \E k \in 1..Len(itemTags(item)) : inFilterMatchSet(itemTags(item)[k])

\* the tag looks like a speaker marker
speakerLike(tag) == startsWith(tag, SpeakerPrefix) \/ ~includes(tag, Hyphen)

theArguments ==
    IF data.hasResponse /\ data.response.hasArguments
    THEN data.response.arguments ELSE <<>>

theStatements ==
    IF data.hasResponse /\ data.response.hasStatements
    THEN data.response.statements ELSE <<>>

theNodes ==
    IF data.hasResponse /\ data.response.hasMap /\ data.response.map.hasNodes
    THEN data.response.map.nodes ELSE <<>>

argumentKeys == {theArguments[i].id : i \in 1..Len(theArguments)}

statementKeys == {theStatements[i].id : i \in 1..Len(theStatements)}

----------------------------------------------------------------------------
(* Properties of buildSpeakerMutations and extractSpeakers *)

\* C1: with a speakers list that is absent or empty, buildSpeakerMutations
\* returns the empty sequence, whatever the data carries.
C1_NoSpeakersNoMutations ==
    (built /\ (~filters.hasSpeakers \/ Len(filters.speakers) = 0))
        => mutations = <<>>

\* C1 happens: an empty (not absent) speakers list, on data whose arguments,
\* statements and graph nodes all carry tags.
C1_Witness ==
    /\ built
    /\ filters.hasSpeakers
    /\ filters.speakers = <<>>
    /\ \E i \in 1..Len(theArguments) : itemTags(theArguments[i]) # <<>>
    /\ \E i \in 1..Len(theStatements) : itemTags(theStatements[i]) # <<>>
    /\ \E i \in 1..Len(theNodes) : itemTags(theNodes[i]) # <<>>
    /\ mutations = <<>>

\* C2: the node identifiers of the emphasize mutation and of the dim mutation
\* are disjoint, for all inputs.
C2_EmphasizeDimDisjoint ==
    built => emphasized \cap dimmed = {}

\* C3: under a non-empty speakers list every statement without tags is in the
\* emphasize mutation, and is in the dim mutation only when an argument of the
\* same identifier was classified non-matching.
C3_UntaggedStatementEmphasized ==
    (built /\ filterActive) =>
        LET E == emphasized
            D == dimmed
        IN  \A i \in 1..Len(theStatements) :
                itemTags(theStatements[i]) = <<>> =>
                    /\ theStatements[i].id \in E
                    /\ theStatements[i].id \in D =>
                          \E j \in 1..Len(theArguments) :
                              /\ theArguments[j].id = theStatements[i].id
                              /\ ~tagsMatch(theArguments[j])

\* C3 happens: a statement whose tags field is absent and one whose tags field
\* is empty, both emphasized and neither dimmed.
C3_Witness ==
    /\ built
    /\ filterActive
    /\ \E i, j \in 1..Len(theStatements) :
          /\ ~theStatements[i].hasTags
          /\ theStatements[j].hasTags
          /\ theStatements[j].tags = <<>>
          /\ {theStatements[i].id, theStatements[j].id} \subseteq emphasized
          /\ {theStatements[i].id, theStatements[j].id} \cap dimmed = {}
    /\ dimmed # {}

\* the data of the example: statements {a: no tags}, arguments
\* {b: [speaker-x], c: [speaker-y]}, no graph nodes; filter speakers [x]
C4_Example ==
    /\ data.hasResponse
    /\ Len(theStatements) = 1
    /\ theStatements[1].id = "a"
    /\ itemTags(theStatements[1]) = <<>>
    /\ Len(theArguments) = 2
    /\ theArguments[1].id = "b"
    /\ itemTags(theArguments[1]) = <<TagSpeakerX>>
    /\ theArguments[2].id = "c"
    /\ itemTags(theArguments[2]) = <<TagSpeakerY>>
    /\ theNodes = <<>>
    /\ filters.hasSpeakers
    /\ filters.speakers = <<NameX>>

\* C4 as stated: on the example the emphasize mutation's nodeIds is the
\* sequence [a, b] and the dim mutation's nodeIds is [c].
C4_Original ==
    (built /\ C4_Example) =>
        /\ nodeIdsOf("emphasize") = <<"a", "b">>
        /\ nodeIdsOf("dim") = <<"c">>

\* C4 amended: on the example the emphasize mutation's nodeIds is the sequence
\* [b, a] (the argument before the statement) and the dim mutation's is [c].
C4_Amended ==
    (built /\ C4_Example) =>
        /\ nodeIdsOf("emphasize") = <<"b", "a">>
        /\ nodeIdsOf("dim") = <<"c">>

\* C4 happens: buildSpeakerMutations has returned on the example.
C4_Witness ==
    /\ built
    /\ C4_Example
    /\ Len(mutations) = 2

\* C5: what extractSpeakers returns is in strictly ascending order of UTF-16
\* code units: sorted, and no entry twice.
C5_SpeakersSortedDistinct ==
    extracted =>
        \A i, j \in 1..Len(speakers) : i < j => StrLess(speakers[i], speakers[j])

\* C5 happens: speaker y is met first (a top-level tag), then x twice (a bare
\* argument tag, a prefixed statement tag), and [x, y] is returned.
C5_Witness ==
    /\ extracted
    /\ data.hasResponse
    /\ data.response.tagsKind = "array"
    /\ \E i \in 1..Len(data.response.tags) :
          tagStr(data.response.tags[i]) = TagSpeakerY
    /\ \E i \in 1..Len(theArguments) : itemTags(theArguments[i]) = <<NameX>>
    /\ \E i \in 1..Len(theStatements) :
          itemTags(theStatements[i]) = <<TagSpeakerX>>
    /\ speakers = <<NameX, NameY>>

\* C6: on data without a structure extractSpeakers returns the empty sequence
\* and buildSpeakerMutations returns the empty sequence, for every filter.
C6_NoStructureNothing ==
    ~data.hasResponse =>
        /\ extracted => speakers = <<>>
        /\ built => mutations = <<>>

\* C6 happens: both functions have returned on data without a structure,
\* under a filter of two speakers.
C6_Witness ==
    /\ ~data.hasResponse
    /\ built
    /\ filters.hasSpeakers
    /\ Len(filters.speakers) = 2
    /\ speakers = <<>>
    /\ mutations = <<>>

\* C7: every dimmed identifier is a key of the arguments map or of the
\* statements map; a graph node whose identifier is neither is never dimmed,
\* and is emphasized exactly when one of its own tags is in the filter-match
\* set.
C7_UnclassifiedNodeNeverDimmed ==
    (built /\ filterActive) =>
        LET E == emphasized
            D == dimmed
            classified == argumentKeys \cup statementKeys
        IN  /\ D \subseteq classified
            /\ \A i \in 1..Len(theNodes) :
                  theNodes[i].id \notin classified =>
                      /\ theNodes[i].id \notin D
                      /\ theNodes[i].id \in E <=> tagsMatch(theNodes[i])

\* C7 happens: a graph node that is no argument and no statement, with a
\* speaker tag outside the filter, is in no mutation, while both mutations
\* are returned.
C7_Witness ==
    /\ built
    /\ filterActive
    /\ \E i \in 1..Len(theNodes) :
          /\ theNodes[i].id \notin argumentKeys \cup statementKeys
          /\ \E k \in 1..Len(itemTags(theNodes[i])) :
                speakerLike(itemTags(theNodes[i])[k])
          /\ ~tagsMatch(theNodes[i])
          /\ theNodes[i].id \notin emphasized \cup dimmed
    /\ dimmed # {}
    /\ emphasized # {}

\* C8: under a non-empty speakers list an argument whose tags include
\* `speaker-s` or the bare `s` of a requested speaker is emphasized, every
\* other argument (one without tags too) is dimmed; and where no statement
\* shares the identifier, in no other case.
C8_ArgumentClassification ==
    (built /\ filterActive) =>
        LET E == emphasized
            D == dimmed
        IN  \A i \in 1..Len(theArguments) :
                LET arg == theArguments[i]
                    matching == tagsMatch(arg)
                IN  /\ matching => arg.id \in E
                    /\ ~matching => arg.id \in D
                    /\ arg.id \notin statementKeys =>
                          /\ arg.id \in E => matching
                          /\ arg.id \in D => ~matching

\* C8 happens: an argument tagged with the bare, hyphen-free name of the
\* requested speaker is emphasized and an argument without tags is dimmed.
C8_Witness ==
    /\ built
    /\ filterActive
    /\ \E i, j \in 1..Len(theArguments) :
          /\ itemTags(theArguments[i]) = <<filters.speakers[1]>>
          /\ ~includes(filters.speakers[1], Hyphen)
          /\ theArguments[i].id \in emphasized \ dimmed
          /\ ~theArguments[j].hasTags
          /\ theArguments[j].id \in dimmed \ emphasized

\* C9: under a non-empty speakers list a statement with a speaker-like tag is
\* emphasized if one of its tags is in the filter-match set and dimmed if
\* none is; a statement without speaker-like tag is emphasized; and where no
\* argument shares the identifier, in no other case.
C9_StatementClassification ==
    (built /\ filterActive) =>
        LET E == emphasized
            D == dimmed
        IN  \A i \in 1..Len(theStatements) :
                LET stmt == theStatements[i]
                    marked == \E k \in 1..Len(itemTags(stmt)) :
                                  speakerLike(itemTags(stmt)[k])
                    matching == tagsMatch(stmt)
                IN  /\ (marked /\ matching) => stmt.id \in E
                    /\ (marked /\ ~matching) => stmt.id \in D
                    /\ ~marked => stmt.id \in E
                    /\ stmt.id \notin argumentKeys =>
                          /\ stmt.id \in D => (marked /\ ~matching)
                          /\ stmt.id \in E => (~marked \/ matching)

\* C9 happens: a statement with a topic tag and the tag of a speaker outside
\* the filter is dimmed, and a statement with the topic tag only is
\* emphasized.
C9_Witness ==
    /\ built
    /\ filterActive
    /\ \E i, j \in 1..Len(theStatements) :
          /\ itemTags(theStatements[i]) = <<TagTopic, TagSpeakerY>>
          /\ theStatements[i].id \in dimmed \ emphasized
          /\ itemTags(theStatements[j]) = <<TagTopic>>
          /\ theStatements[j].id \in emphasized \ dimmed

\* C10: at most two mutations are returned, at most one emphasize and at most
\* one dim, the emphasize mutation first, each with a non-empty nodeIds.
C10_MutationsShape ==
    built =>
        /\ Len(mutations) <= 2
        /\ \A i, j \in 1..Len(mutations) :
              i < j => /\ mutations[i].effect = "emphasize"
                       /\ mutations[j].effect = "dim"
        /\ \A i \in 1..Len(mutations) :
              /\ mutations[i].effect \in {"emphasize", "dim"}
              /\ mutations[i].nodeIds # <<>>

\* C10 happens: a dim mutation alone is returned (no node matches).
C10_Witness ==
    /\ built
    /\ filterActive
    /\ Len(mutations) = 1
    /\ mutations[1].effect = "dim"
    /\ Len(theArguments) + Len(theStatements) + Len(theNodes) = MaxItems

\* what is left of a tag after the prefix `speaker-`
remainder(tag) == SubSeq(tag, Len(SpeakerPrefix) + 1, Len(tag))

\* the tags of all arguments and of all statements
allItemTags ==
    UNION {Range(itemTags(theArguments[i])) : i \in 1..Len(theArguments)}
      \cup UNION {Range(itemTags(theStatements[i])) :
                    i \in 1..Len(theStatements)}

\* the texts of the entries of a top-level tags sequence
topLevelTags == {tagStr(data.response.tags[i]) : i \in 1..Len(data.response.tags)}

\* C11: for data whose top-level tags are a sequence, the set of entries
\* extractSpeakers returns is exactly: the remainder of every top-level tag
\* that starts with `speaker-`, and for every tag of every argument and
\* statement the remainder if it starts with `speaker-`, the tag itself if it
\* has no hyphen.  Nothing else contributes.
C11_ExactSpeakerSet ==
    (extracted /\ data.hasResponse /\ data.response.tagsKind = "array") =>
        Range(speakers) =
            {remainder(t) : t \in {u \in topLevelTags :
                                      startsWith(u, SpeakerPrefix)}}
              \cup {remainder(t) : t \in {u \in allItemTags :
                                             startsWith(u, SpeakerPrefix)}}
              \cup {u \in allItemTags : ~startsWith(u, SpeakerPrefix)
                                          /\ ~includes(u, Hyphen)}

\* C11 happens: the top-level sequence holds the hyphen-free tag x and the tag
\* speaker-X, an argument holds a topic tag and speaker-y, and exactly X and y
\* are returned.
C11_Witness ==
    /\ extracted
    /\ data.hasResponse
    /\ data.response.tagsKind = "array"
    /\ NameX \in topLevelTags
    /\ TagSpeakerUpperX \in topLevelTags
    /\ \E i \in 1..Len(theArguments) :
          itemTags(theArguments[i]) = <<TagTopic, TagSpeakerY>>
    /\ speakers = <<<<"X">>, NameY>>

withEmptyTags(items) ==
    [i \in 1..Len(items) |-> [items[i] EXCEPT !.hasTags = TRUE]]

\* the data with an empty collection in place of each absent one:
\* response.tags, response.arguments, response.statements, response.map, its
\* nodes, and the tags field of each argument, statement and node
withEmptyForAbsent(d) ==
    [d EXCEPT
        !.response.tagsKind = IF @ = "absent" THEN "array" ELSE @,
        !.response.hasArguments = TRUE,
        !.response.arguments = withEmptyTags(@),
        !.response.hasStatements = TRUE,
        !.response.statements = withEmptyTags(@),
        !.response.hasMap = TRUE,
        !.response.map.hasNodes = TRUE,
        !.response.map.nodes = withEmptyTags(@)]

\* C13: on data with absent collections (top-level tags, arguments,
\* statements, the graph, its nodes, the tags of an argument, statement or
\* node) both functions return what they return on the data with an empty
\* collection in each such place: a sequence, never an error.
C13_AbsentIsEmpty ==
    data.hasResponse =>
        LET filled == withEmptyForAbsent(data)
        IN  /\ extracted => speakers = extractSpeakers(filled)
            /\ built => mutations = buildSpeakerMutations(filled, filters)

\* C13 happens: no top-level tags, no statements, a graph without nodes, an
\* argument without tags field; both functions have returned and the
\* argument is dimmed.
C13_Witness ==
    /\ built
    /\ filterActive
    /\ data.response.tagsKind = "absent"
    /\ ~data.response.hasStatements
    /\ data.response.hasMap
    /\ ~data.response.map.hasNodes
    /\ \E i \in 1..Len(theArguments) :
          /\ ~theArguments[i].hasTags
          /\ theArguments[i].id \in dimmed
    /\ speakers # <<>>

----------------------------------------------------------------------------
(* Properties of the panel *)

\* C14: once the panel is mounted, the event type of every tool of
\* argdownPanelTools is an event type the panel has subscribed a handler to.
C14_EveryToolEventHandled ==
    mounted =>
        \A i \in 1..Len(argdownPanelTools) :
            argdownPanelTools[i].event_type \in handlers

\* a state of the component, after the first render or later
inPanel == pc \in {"rendered", "mounted"}

\* C15: in every state of the panel the mutation list handed to the renderer
\* is buildSpeakerMutations(current data, current filters) and the available
\* speakers are extractSpeakers(current data); with data null both are empty.
C15_DerivedListsCurrent ==
    inPanel =>
        IF state.data.isNull
        THEN speakers = <<>> /\ mutations = <<>>
        ELSE /\ speakers = extractSpeakers(state.data.val)
             /\ mutations = buildSpeakerMutations(state.data.val, state.filters)

\* C15 happens: with the debate loaded, a click on a speaker has left y alone
\* in the filter, and the renderer gets an emphasize and a dim mutation.
C15_Witness ==
    /\ mounted
    /\ last.op = "click:speaker"
    /\ state.data = Some(DataDebate)
    /\ state.filters.hasSpeakers
    /\ state.filters.speakers = <<NameY>>
    /\ speakers = <<NameX, NameY>>
    /\ Len(mutations) = 2
    /\ mutations[1].nodeIds = <<"c", "a">>

\* the operation handled last has installed new data
installedData ==
    \/ last.op = PanelEvent("load-argdown") /\ last.hasPayload
    \/ last.op = "parse:resolved"

\* C16: a load-argdown event with a payload, and a parse that succeeded,
\* install the new data together with the empty filter: in the state they
\* leave, data is the new data and filters is {}, whatever filter was active
\* before.
C16_InstallResetsFilters ==
    /\ [][(last'.op = PanelEvent("load-argdown") /\ last'.hasPayload) =>
              /\ state'.data = Some(last'.payload.data)
              /\ state'.filters = EmptyFilters]_vars
    /\ [][last'.op = "parse:resolved" =>
              /\ state'.data = Some(last'.payload.parsed)
              /\ state'.filters = EmptyFilters]_vars
    /\ [](installedData => (state.filters = EmptyFilters /\ mutations = <<>>))

\* C16 happens: a load-argdown event has replaced the data loaded from a file
\* by other data; the filter is {}.
C16_Witness ==
    /\ mounted
    /\ last.op = PanelEvent("load-argdown")
    /\ last.hasPayload
    /\ state.data = Some(DataSolo)
    /\ state.title = Null
    /\ state.filters = EmptyFilters
    /\ state.highlightedNode # Null
    /\ state.showFilterPanel

\* the fields a failed parse and a file event without content must not touch
keptByFileHandling(st) ==
    <<st.data, st.title, st.filters, st.highlightedNode, st.showFilterPanel>>

\* the event handled last is a file event
fileEvent(l) == l.op \in {FileSelectedEvent, FileOpenedEvent}

\* C17: when the parse of a selected file fails, isLoading becomes false,
\* error becomes the failure's message, and data, title, filters,
\* highlightedNode and showFilterPanel stay what they were; a file event
\* without content changes nothing in the state.
C17_FailedParseKeepsData ==
    /\ [][last'.op = "parse:rejected" =>
              /\ ~state'.isLoading
              /\ state'.error =
                    Some(IF last'.payload.thrown.isError
                         THEN last'.payload.thrown.message
                         ELSE DefaultParseError)
              /\ keptByFileHandling(state') = keptByFileHandling(state)]_vars
    /\ [][(fileEvent(last') /\ last'.hasPayload
             /\ (~last'.payload.hasContent \/ last'.payload.content = "")) =>
              (state' = state /\ parses' = parses)]_vars

\* C17 happens: a parse has failed while data was loaded, a speaker filter
\* was active, a node was highlighted and the filter panel was open; all of
\* it is still there, next to the error.
C17_Witness ==
    /\ mounted
    /\ last.op = "parse:rejected"
    /\ state.data = Some(DataDebate)
    /\ state.title = Some(<<"T">>)
    /\ state.filters.hasSpeakers
    /\ state.filters.speakers = <<NameX>>
    /\ state.highlightedNode = Some("n")
    /\ state.showFilterPanel
    /\ ~state.isLoading
    /\ state.error = Some("Unexpected token")

\* C18: a reset-view event sets highlightedNode to null; it sets filters to
\* {} if the payload has resetFilters true and leaves filters as they are
\* with resetFilters false or absent, or without payload; data, title,
\* isLoading, error and showFilterPanel are unchanged in every case.
C18_ResetViewFrame ==
    [][last'.op = PanelEvent("reset-view") =>
          /\ state'.highlightedNode = Null
          /\ state'.filters =
                IF /\ last'.hasPayload
                   /\ last'.payload.hasResetFilters
                   /\ last'.payload.resetFilters
                THEN EmptyFilters
                ELSE state.filters
          /\ state'.data = state.data
          /\ state'.title = state.title
          /\ state'.isLoading = state.isLoading
          /\ state'.error = state.error
          /\ state'.showFilterPanel = state.showFilterPanel]_vars

\* C18 happens: a reset-view event without payload has been handled while a
\* speaker filter was active on loaded data; the filter is still active.
C18_Witness ==
    /\ mounted
    /\ last.op = PanelEvent("reset-view")
    /\ ~last.hasPayload
    /\ state.data = Some(DataDebate)
    /\ state.filters.hasSpeakers
    /\ state.filters.speakers = <<NameY, NameX>>
    /\ state.highlightedNode = Null
    /\ Len(mutations) = 1

\* the set of active speakers of a filter
activeSpeakers(f) == Range(currentSpeakers(f))

\* C19: toggleSpeakerFilter(s) removes s from filters.speakers if it is
\* there and appends it at the end if it is not, changes the membership of no
\* other speaker and no other filter field, and never leaves an empty
\* speakers list: without a speaker left, speakers is absent.  Toggling the
\* same speaker twice gives the original set of active speakers.
C19_ToggleSpeaker ==
    /\ [][last'.op = "click:speaker" =>
              LET s == last'.payload.speaker
                  before == currentSpeakers(state.filters)
                  after == currentSpeakers(state'.filters)
              IN  /\ s \in Range(before) =>
                        after = SelectSeq(before, LAMBDA t : t # s)
                  /\ s \notin Range(before) => after = Append(before, s)
                  /\ (s \in Range(after)) = (s \notin Range(before))
                  /\ Range(after) \ {s} = Range(before) \ {s}
                  /\ state'.filters.hasTags = state.filters.hasTags
                  /\ state'.filters.tags = state.filters.tags
                  /\ state'.filters.hasSpeakers = (after # <<>>)]_vars
    /\ [](inPanel =>
            /\ last.op = "click:speaker" =>
                  ~(state.filters.hasSpeakers /\ state.filters.speakers = <<>>)
            /\ \A s \in SpeakerNames :
                  activeSpeakers(
                      toggleSpeakerFilter(toggleSpeakerFilter(state, s),
                                          s).filters)
                    = activeSpeakers(state.filters))

\* C19 happens: a click has removed the last active speaker of a filter that
\* also has tags; speakers is absent and the tags are kept.
C19_Witness ==
    /\ mounted
    /\ last.op = "click:speaker"
    /\ ~state.filters.hasSpeakers
    /\ state.filters.speakers = <<>>
    /\ state.filters.hasTags
    /\ state.filters.tags = <<TagTopic>>

\* the state without this field
without(st, field) == [k \in (DOMAIN st) \ {field} |-> st[k]]

\* C20: a set-filters event with a payload makes filters the payload as a
\* whole and changes no other field of the state; a highlight-node event
\* with a payload makes highlightedNode the payload's nodeId and changes no
\* other field; either event without payload changes nothing.
C20_SetFiltersHighlightFrame ==
    /\ [][last'.op = PanelEvent("set-filters") =>
              IF last'.hasPayload
              THEN /\ state'.filters = last'.payload
                   /\ without(state', "filters") = without(state, "filters")
              ELSE state' = state]_vars
    /\ [][last'.op = PanelEvent("highlight-node") =>
              IF last'.hasPayload
              THEN /\ state'.highlightedNode = Some(last'.payload.nodeId)
                   /\ without(state', "highlightedNode")
                         = without(state, "highlightedNode")
              ELSE state' = state]_vars

\* C20 happens: a set-filters event with a payload of tags only has been
\* handled on loaded data with a highlighted node; no speakers are left in
\* the filter and nothing is dimmed or emphasized.
C20_Witness ==
    /\ mounted
    /\ last.op = PanelEvent("set-filters")
    /\ last.hasPayload
    /\ state.filters.hasTags
    /\ ~state.filters.hasSpeakers
    /\ state.data = Some(DataDebate)
    /\ state.highlightedNode = Some("b")
    /\ state.showFilterPanel
    /\ mutations = <<>>

\* C21: when a load-argdown event with a payload has just been handled and
\* no processArgdown call is in flight, the main area shows the renderer,
\* with the payload's data.
C21_LoadShowsRenderer ==
    (/\ mounted
     /\ last.op = PanelEvent("load-argdown")
     /\ last.hasPayload
     /\ Len(parses) = 0)
    => /\ mainArea(state) = "renderer"
       /\ state.data = Some(last.payload.data)

\* C22: in every state of the panel isLoading is true exactly when some
\* processArgdown call started by a file event has not settled.
C22_LoadingIffParsePending ==
    inPanel => (state.isLoading <=> Len(parses) > 0)

====
